---- MODULE Spec2Model ----
(***************************************************************************)
(* The usdcball treasury program (programs/usdcball/src/lib.rs): one       *)
(* Treasury account, created by initialize and changed by the handlers     *)
(* record_fee, execute_buyback, add_liquidity, record_usdc_conversion,     *)
(* emergency_pause, resume and update_config.                              *)
(*                                                                         *)
(* Every handler works on `treasury`, the deserialised copy of the account *)
(* it gets as ctx.accounts.treasury.  The copy is written back to the      *)
(* account when the handler returns Ok; when it returns an error or        *)
(* panics, the account keeps its data.  A handler is an operator from the  *)
(* account to its Outcome: the result, the copy as the handler left it,    *)
(* the event emitted and the token transfer invoked.  `account` is the     *)
(* stored record.                                                          *)
(*                                                                         *)
(* u64 is modelled with the range 0..MaxU64 (TLC's integers are 32 bits    *)
(* wide, the widened product total * bps must fit them); u16 keeps its     *)
(* width.  Whether an unchecked + that overflows panics or wraps depends   *)
(* on the build profile (overflow-checks), which the source does not fix:  *)
(* `overflow_checks` is chosen in Init and never changes.                  *)
(***************************************************************************)
EXTENDS Integers, Sequences, FiniteSets, TLC

VARIABLES
    account,          \* the stored Treasury record, NoTreasury before initialize
    last_spend,       \* the last successful spending op: "none", "buyback", "liquidity"
    clock,            \* Clock::get()?.unix_timestamp
    overflow_checks   \* build profile: TRUE = overflowing + panics, FALSE = it wraps

vars == <<account, last_spend, clock, overflow_checks>>

----------------------------------------------------------------------------
\* Bounds of the model

\* largest value of the model's u64
MaxU64 == 32767
\* the clock runs over 0..MaxTime
MaxTime == 2

\* Program constants
U16_MAX == 65535
BPS_DENOMINATOR == 10000
MAX_SLIPPAGE_BPS == 1000

----------------------------------------------------------------------------
\* Inputs

Callers == {"alice", "bob"}

\* (buyback, liquidity, reserve) triples passed to initialize: two that sum to
\* 10000, one that sums to 9000, one whose sum 75536 is 10000 modulo 2^16, one
\* whose sum overflows u16 and is not 10000 modulo 2^16
AllocationTriples ==
    { <<6000, 3000, 1000>>, <<0, 0, 10000>>, <<3000, 3000, 3000>>,
      <<30000, 45536, 0>>, <<65535, 65535, 65535>> }

\* (max_usdc_per_cycle, cooldown_seconds, slippage_bps) passed to initialize
InitConfigs ==
    { <<MaxU64, -1, 1000>>, <<6000, 2, 1000>>, <<MaxU64, 2, 500>>, <<6000, -1, 1001>> }

FeeAmounts == {0, 30000}
ConversionAmounts == {10000}
SpendAmounts == {0, 6000, 30000}

\* Option<T>: None is the empty sequence, Some(x) the sequence of x
None == << >>
Some(x) == <<x>>
Unwrap(o) == o[1]

\* (max_usdc_per_cycle, cooldown_seconds, slippage_bps) arguments of
\* update_config, each an Option
ConfigPatches ==
    { <<None, None, None>>,
      <<Some(6000), None, None>>,
      <<Some(MaxU64), Some(2), None>>,
      <<None, Some(0), Some(500)>>,
      <<None, None, Some(1001)>>,
      <<Some(6000), Some(0), Some(1001)>> }

----------------------------------------------------------------------------
\* Integer arithmetic of the program

\* u16 + u16 when the sum wraps
WrapU16(n) == n % (U16_MAX + 1)

\* u64 + u64 when the sum wraps, and u128 as u64
WrapU64(n) == n % (MaxU64 + 1)

\* checked_add replaced by wrapping_add
wrapping_add(a, b) == Some(WrapU64(a + b))

\* u64::checked_add: None on overflow
checked_add(a, b) == IF a + b > MaxU64 THEN None ELSE Some(a + b)

----------------------------------------------------------------------------
\* The Treasury account

NoTreasury == [exists |-> FALSE]

Exists(t) == t # NoTreasury

Treasury(auth, b, l, r, max, cd, sl) ==
    [ authority |-> auth,
      buyback_allocation_bps |-> b,
      liquidity_allocation_bps |-> l,
      reserve_allocation_bps |-> r,
      max_usdc_per_cycle |-> max,
      cooldown_seconds |-> cd,
      slippage_bps |-> sl,
      total_sol_collected |-> 0,
      total_usdc_converted |-> 0,
      total_buybacks_usdc |-> 0,
      total_liquidity_usdc |-> 0,
      total_tokens_burned |-> 0,
      last_operation_timestamp |-> 0,
      paused |-> FALSE ]

\* What a handler returns: its result, its copy of the account at that point,
\* the event it emitted and whether token::transfer was invoked
Outcome(res, t, ev, cpi) == [result |-> res, treasury |-> t, event |-> ev, cpi |-> cpi]

Fail(res, t) == Outcome(res, t, "none", "none")

----------------------------------------------------------------------------
\* initialize (lines 11-51)

\* initialize with slippage_bps < 1000 for slippage_bps <= 1000
initialize_strict(caller, b, l, r, max, cd, sl, oc) ==
    IF oc /\ (b + l > U16_MAX \/ b + l + r > U16_MAX)
    THEN Fail("Panic", NoTreasury)
    ELSE IF WrapU16(WrapU16(b + l) + r) # BPS_DENOMINATOR
    THEN Fail("InvalidAllocation", NoTreasury)
    ELSE IF ~(sl < MAX_SLIPPAGE_BPS)
    THEN Fail("SlippageTooHigh", NoTreasury)
    ELSE Outcome("Ok", Treasury(caller, b, l, r, max, cd, sl), "TreasuryInitialized", "none")

initialize(caller, b, l, r, max, cd, sl, oc) ==
    IF oc /\ (b + l > U16_MAX \/ b + l + r > U16_MAX)
    THEN Fail("Panic", NoTreasury)
    ELSE IF WrapU16(WrapU16(b + l) + r) # BPS_DENOMINATOR
    THEN Fail("InvalidAllocation", NoTreasury)
    ELSE IF ~(sl <= MAX_SLIPPAGE_BPS)
    THEN Fail("SlippageTooHigh", NoTreasury)
    ELSE Outcome("Ok", Treasury(caller, b, l, r, max, cd, sl), "TreasuryInitialized", "none")

----------------------------------------------------------------------------
\* The guards of the handlers

\* the pause guard left out
not_paused_ignored(t) == TRUE

\* require!(!treasury.paused, ErrorCode::Paused)
not_paused(t) == ~t.paused

\* the cooldown guard comparing with the magnitude of cooldown_seconds
cooldown_met_magnitude(t, now) ==
    LET time_since_last == now - t.last_operation_timestamp
    IN  time_since_last >= (IF t.cooldown_seconds < 0 THEN -t.cooldown_seconds
                            ELSE t.cooldown_seconds)

\* the cooldown guard with > for >=
cooldown_met_strict(t, now) ==
    LET time_since_last == now - t.last_operation_timestamp
    IN  time_since_last > t.cooldown_seconds

\* time_since_last >= treasury.cooldown_seconds
cooldown_met(t, now) ==
    LET time_since_last == now - t.last_operation_timestamp
    IN  time_since_last >= t.cooldown_seconds

\* the per-cycle limit with < for <=
within_cycle_limit_strict(t, usdc_amount) == usdc_amount < t.max_usdc_per_cycle

\* usdc_amount <= treasury.max_usdc_per_cycle
within_cycle_limit(t, usdc_amount) == usdc_amount <= t.max_usdc_per_cycle

\* (total as u128).checked_mul(bps as u128)?.checked_div(10000)? as u64: the
\* product of a u64 and a u16 fits u128 and the divisor is not 0, so neither
\* checked operation fails; the cast keeps the low 64 bits
max_allocation(total_usdc_converted, allocation_bps) ==
    WrapU64((total_usdc_converted * allocation_bps) \div BPS_DENOMINATOR)

\* spent + usdc_amount, an unchecked u64 addition
overflows(spent, usdc_amount) == spent + usdc_amount > MaxU64

\* the budget guard without the amount
within_allocation_spent_only(spent, usdc_amount, max) == spent <= max

\* spent + usdc_amount <= max, the sum taken as the wrapping build computes it
within_allocation(spent, usdc_amount, max) == WrapU64(spent + usdc_amount) <= max

----------------------------------------------------------------------------
\* record_fee (lines 54-70)

\* the fee added to total_usdc_converted as well
record_fee_as_converted(t, amount) ==
    IF ~not_paused(t) THEN Fail("Paused", t)
    ELSE LET sum == checked_add(t.total_sol_collected, amount)
         IN  IF sum = None THEN Fail("Overflow", t)
             ELSE Outcome("Ok", [t EXCEPT !.total_sol_collected = Unwrap(sum),
                                          !.total_usdc_converted = Unwrap(sum)],
                          "FeeRecorded", "none")

record_fee(t, amount) ==
    IF ~not_paused(t) THEN Fail("Paused", t)
    ELSE LET sum == checked_add(t.total_sol_collected, amount)
         IN  IF sum = None THEN Fail("Overflow", t)
             ELSE Outcome("Ok", [t EXCEPT !.total_sol_collected = Unwrap(sum)],
                          "FeeRecorded", "none")

\* record_usdc_conversion (lines 205-221)

record_usdc_conversion(t, usdc_amount) ==
    IF ~not_paused(t) THEN Fail("Paused", t)
    ELSE LET sum == checked_add(t.total_usdc_converted, usdc_amount)
         IN  IF sum = None THEN Fail("Overflow", t)
             ELSE Outcome("Ok", [t EXCEPT !.total_usdc_converted = Unwrap(sum)],
                          "UsdcConverted", "none")

\* execute_buyback (lines 73-137); transfer_ok is the result of token::transfer
\* and oc the build's overflow-checks

\* the counter and the timestamp written before token::transfer is invoked
record_then_transfer(t, counter, now, usdc_amount, transfer_ok, event) ==
    LET sum == checked_add(t[counter], usdc_amount)
    IN  IF sum = None THEN Fail("Overflow", t)
        ELSE LET written == [t EXCEPT ![counter] = Unwrap(sum),
                                      !.last_operation_timestamp = now]
             IN  IF ~transfer_ok THEN Outcome("TransferFailed", written, "none", "failed")
                 ELSE Outcome("Ok", written, event, "ok")

\* the counter written and last_operation_timestamp left as it was
record_without_timestamp(t, counter, now, usdc_amount, transfer_ok, event) ==
    IF ~transfer_ok THEN Outcome("TransferFailed", t, "none", "failed")
    ELSE LET sum == checked_add(t[counter], usdc_amount)
         IN  IF sum = None THEN Outcome("Overflow", t, "none", "ok")
             ELSE Outcome("Ok", [t EXCEPT ![counter] = Unwrap(sum)], event, "ok")

\* lines 107-136 and 172-201: token::transfer(cpi_ctx, usdc_amount)?, then the
\* counter's checked_add, the timestamp and the event; `counter` is the field
\* the handler adds to
transfer_and_record(t, counter, now, usdc_amount, transfer_ok, event) ==
    IF ~transfer_ok THEN Outcome("TransferFailed", t, "none", "failed")
    ELSE LET sum == checked_add(t[counter], usdc_amount)
         IN  IF sum = None THEN Outcome("Overflow", t, "none", "ok")
             ELSE Outcome("Ok",
                          [t EXCEPT ![counter] = Unwrap(sum),
                                    !.last_operation_timestamp = now],
                          event, "ok")

execute_buyback(t, now, usdc_amount, transfer_ok, oc) ==
    IF ~not_paused(t) THEN Fail("Paused", t)
    ELSE IF ~cooldown_met(t, now) THEN Fail("CooldownNotMet", t)
    ELSE IF ~within_cycle_limit(t, usdc_amount) THEN Fail("ExceedsMaxPerCycle", t)
    ELSE LET max_buyback == max_allocation(t.total_usdc_converted, t.buyback_allocation_bps)
         IN  IF oc /\ overflows(t.total_buybacks_usdc, usdc_amount) THEN Fail("Panic", t)
             ELSE IF ~within_allocation(t.total_buybacks_usdc, usdc_amount, max_buyback)
             THEN Fail("ExceedsAllocation", t)
             ELSE transfer_and_record(t, "total_buybacks_usdc", now, usdc_amount,
                                      transfer_ok, "BuybackExecuted")

\* add_liquidity (lines 140-202)

add_liquidity(t, now, usdc_amount, transfer_ok, oc) ==
    IF ~not_paused(t) THEN Fail("Paused", t)
    ELSE IF ~cooldown_met(t, now) THEN Fail("CooldownNotMet", t)
    ELSE IF ~within_cycle_limit(t, usdc_amount) THEN Fail("ExceedsMaxPerCycle", t)
    ELSE LET max_liquidity == max_allocation(t.total_usdc_converted, t.liquidity_allocation_bps)
         IN  IF oc /\ overflows(t.total_liquidity_usdc, usdc_amount) THEN Fail("Panic", t)
             ELSE IF ~within_allocation(t.total_liquidity_usdc, usdc_amount, max_liquidity)
             THEN Fail("ExceedsAllocation", t)
             ELSE transfer_and_record(t, "total_liquidity_usdc", now, usdc_amount,
                                      transfer_ok, "LiquidityAdded")

\* emergency_pause (lines 224-233) and resume (lines 236-245)

\* emergency_pause refusing a ledger that is paused already
emergency_pause_once(t) ==
    IF t.paused THEN Fail("Paused", t)
    ELSE Outcome("Ok", [t EXCEPT !.paused = TRUE], "EmergencyPaused", "none")

emergency_pause(t) == Outcome("Ok", [t EXCEPT !.paused = TRUE], "EmergencyPaused", "none")

resume(t) == Outcome("Ok", [t EXCEPT !.paused = FALSE], "OperationsResumed", "none")

\* update_config (lines 248-274): the three if-lets run in the order of the
\* source, each on the copy the one before it left

set_max_usdc_per_cycle(t, max_usdc_per_cycle) ==
    IF max_usdc_per_cycle # None
    THEN [t EXCEPT !.max_usdc_per_cycle = Unwrap(max_usdc_per_cycle)]
    ELSE t

\* the cooldown supplied stored as max_usdc_per_cycle
set_cooldown_seconds_as_max(t, cooldown_seconds) ==
    IF cooldown_seconds # None
    THEN [t EXCEPT !.max_usdc_per_cycle = Unwrap(cooldown_seconds)]
    ELSE t

set_cooldown_seconds(t, cooldown_seconds) ==
    IF cooldown_seconds # None
    THEN [t EXCEPT !.cooldown_seconds = Unwrap(cooldown_seconds)]
    ELSE t

update_config(t, max_usdc_per_cycle, cooldown_seconds, slippage_bps) ==
    LET t1 == set_max_usdc_per_cycle(t, max_usdc_per_cycle)
        t2 == set_cooldown_seconds(t1, cooldown_seconds)
    IN  IF slippage_bps # None
        THEN IF ~(Unwrap(slippage_bps) <= MAX_SLIPPAGE_BPS)
             THEN Fail("SlippageTooHigh", t2)
             ELSE Outcome("Ok", [t2 EXCEPT !.slippage_bps = Unwrap(slippage_bps)],
                          "ConfigUpdated", "none")
        ELSE Outcome("Ok", t2, "ConfigUpdated", "none")

----------------------------------------------------------------------------
\* Account validation (the Accounts structs, lines 281-397), done before the
\* handler runs

\* init_if_needed for init: an existing account is accepted
init_if_needed(acct) == TRUE

\* #[account(init, ...)]: the account must not exist yet
init_constraint(acct) == ~Exists(acct)

\* the authority constraint left out of the Accounts struct
authority_constraint_missing(acct, caller) == TRUE

\* constraint = authority.key() == treasury.authority
authority_constraint(acct, caller) == caller = acct.authority

\* RecordConversion without the authority constraint
RequiresAuthorityButConversion ==
    {"ExecuteBuyback", "AddLiquidity", "EmergencyPause", "Resume", "UpdateConfig"}

\* The operations whose Accounts struct has the authority constraint
RequiresAuthority ==
    {"ExecuteBuyback", "AddLiquidity", "RecordConversion", "EmergencyPause", "Resume",
     "UpdateConfig"}

\* The error of account validation, "Ok" when it passes
validate_accounts(op, acct, caller) ==
    IF op = "Initialize"
    THEN IF init_constraint(acct) THEN "Ok" ELSE "AlreadyExists"
    ELSE IF ~Exists(acct) THEN "AccountNotInitialized"
    ELSE IF op \in RequiresAuthority /\ ~authority_constraint(acct, caller)
    THEN "ConstraintRaw"
    ELSE "Ok"

----------------------------------------------------------------------------
\* One invocation of each instruction in the current state: account
\* validation, then the handler on a copy of the stored account

Validated(op, caller, handled) ==
    LET v == validate_accounts(op, account, caller)
    IN  IF v = "Ok" THEN handled ELSE Fail(v, account)

CallInitialize(caller, a, c) ==
    Validated("Initialize", caller,
              initialize(caller, a[1], a[2], a[3], c[1], c[2], c[3], overflow_checks))

CallRecordFee(caller, amount) ==
    Validated("RecordFee", caller, record_fee(account, amount))

CallRecordConversion(caller, usdc_amount) ==
    Validated("RecordConversion", caller, record_usdc_conversion(account, usdc_amount))

CallExecuteBuyback(caller, usdc_amount, transfer_ok) ==
    Validated("ExecuteBuyback", caller,
              execute_buyback(account, clock, usdc_amount, transfer_ok, overflow_checks))

CallAddLiquidity(caller, usdc_amount, transfer_ok) ==
    Validated("AddLiquidity", caller,
              add_liquidity(account, clock, usdc_amount, transfer_ok, overflow_checks))

CallEmergencyPause(caller) ==
    Validated("EmergencyPause", caller, emergency_pause(account))

CallResume(caller) ==
    Validated("Resume", caller, resume(account))

CallUpdateConfig(caller, p) ==
    Validated("UpdateConfig", caller, update_config(account, p[1], p[2], p[3]))

\* The handler's copy is written back to the account when it returned Ok;
\* otherwise the transaction fails and the account keeps its data
Commit(op, out) ==
    /\ account' = IF out.result = "Ok" THEN out.treasury ELSE account
    /\ last_spend' = IF out.result = "Ok" /\ op = "ExecuteBuyback" THEN "buyback"
                     ELSE IF out.result = "Ok" /\ op = "AddLiquidity" THEN "liquidity"
                     ELSE last_spend
    /\ UNCHANGED <<clock, overflow_checks>>

Initialize ==
    \E caller \in Callers, a \in AllocationTriples, c \in InitConfigs :
        Commit("Initialize", CallInitialize(caller, a, c))

RecordFee ==
    \E caller \in Callers, amount \in FeeAmounts :
        Commit("RecordFee", CallRecordFee(caller, amount))

RecordConversion ==
    \E caller \in Callers, usdc_amount \in ConversionAmounts :
        Commit("RecordConversion", CallRecordConversion(caller, usdc_amount))

ExecuteBuyback ==
    \E caller \in Callers, usdc_amount \in SpendAmounts, transfer_ok \in BOOLEAN :
        Commit("ExecuteBuyback", CallExecuteBuyback(caller, usdc_amount, transfer_ok))

AddLiquidity ==
    \E caller \in Callers, usdc_amount \in SpendAmounts, transfer_ok \in BOOLEAN :
        Commit("AddLiquidity", CallAddLiquidity(caller, usdc_amount, transfer_ok))

EmergencyPause ==
    \E caller \in Callers : Commit("EmergencyPause", CallEmergencyPause(caller))

Resume ==
    \E caller \in Callers : Commit("Resume", CallResume(caller))

UpdateConfig ==
    \E caller \in Callers, p \in ConfigPatches :
        Commit("UpdateConfig", CallUpdateConfig(caller, p))

\* The clock sysvar advances
Tick ==
    /\ clock < MaxTime
    /\ clock' = clock + 1
    /\ UNCHANGED <<account, last_spend, overflow_checks>>

Init ==
    /\ account = NoTreasury
    /\ last_spend = "none"
    /\ clock = 0
    /\ overflow_checks \in BOOLEAN

Next ==
    \/ Initialize
    \/ RecordFee
    \/ RecordConversion
    \/ ExecuteBuyback
    \/ AddLiquidity
    \/ EmergencyPause
    \/ Resume
    \/ UpdateConfig
    \/ Tick

Spec == Init /\ [][Next]_vars

----------------------------------------------------------------------------
\* Properties

\* floor(total_converted * bps / 10000) over the integers
ExactBudget(total_converted, bps) == (total_converted * bps) \div BPS_DENOMINATOR

Counters ==
    {"total_sol_collected", "total_usdc_converted", "total_buybacks_usdc",
     "total_liquidity_usdc", "total_tokens_burned"}

\* C1: in every reachable state total_buybacks <= floor(total_converted *
\* buyback_bps / 10000) and total_liquidity <= floor(total_converted *
\* liquidity_bps / 10000), the right-hand sides taken over the integers.
C1_AllocationBudgets ==
    Exists(account) =>
        /\ account.total_buybacks_usdc
             <= ExactBudget(account.total_usdc_converted, account.buyback_allocation_bps)
        /\ account.total_liquidity_usdc
             <= ExactBudget(account.total_usdc_converted, account.liquidity_allocation_bps)

\* Both categories have spent, the buyback category all of its budget.
C1_Witness ==
    /\ Exists(account)
    /\ account.total_liquidity_usdc > 0
    /\ account.total_buybacks_usdc > 0
    /\ account.total_buybacks_usdc
         = ExactBudget(account.total_usdc_converted, account.buyback_allocation_bps)

\* C2: whenever the Treasury record exists, buyback_bps + liquidity_bps +
\* reserve_bps = 10000 as an integer sum.
C2_AllocationsSumTo10000 ==
    Exists(account) =>
        account.buyback_allocation_bps + account.liquidity_allocation_bps
            + account.reserve_allocation_bps = BPS_DENOMINATOR

\* C3: when no record exists, initialize with a triple whose integer sum is not
\* 10000 fails with InvalidAllocation and creates no record.
C3_BadSumRejected ==
    ~Exists(account) =>
        \A caller \in Callers, a \in AllocationTriples, c \in InitConfigs :
            a[1] + a[2] + a[3] # BPS_DENOMINATOR =>
                CallInitialize(caller, a, c) = Fail("InvalidAllocation", NoTreasury)

\* C4: when no record exists, initialize with a triple that sums to 10000 and
\* slippage_bps <= 1000 succeeds for every max_usdc_per_cycle and
\* cooldown_seconds; the record it creates has the supplied configuration, the
\* caller as authority, the five counters and last_operation_timestamp 0 and
\* paused false, so the standing invariants 1 to 4 hold of it.
C4_InitializeCreates ==
    ~Exists(account) =>
        \A caller \in Callers, a \in AllocationTriples, c \in InitConfigs :
            (a[1] + a[2] + a[3] = BPS_DENOMINATOR /\ c[3] <= MAX_SLIPPAGE_BPS) =>
                LET out == CallInitialize(caller, a, c)
                    t == out.treasury
                IN  /\ out.result = "Ok"
                    /\ out.event = "TreasuryInitialized"
                    /\ Exists(t)
                    /\ t.authority = caller
                    /\ t.buyback_allocation_bps = a[1]
                    /\ t.liquidity_allocation_bps = a[2]
                    /\ t.reserve_allocation_bps = a[3]
                    /\ t.max_usdc_per_cycle = c[1]
                    /\ t.cooldown_seconds = c[2]
                    /\ t.slippage_bps = c[3]
                    /\ \A k \in Counters : t[k] = 0
                    /\ t.last_operation_timestamp = 0
                    /\ t.paused = FALSE
                    /\ t.buyback_allocation_bps + t.liquidity_allocation_bps
                         + t.reserve_allocation_bps = BPS_DENOMINATOR
                    /\ t.slippage_bps <= MAX_SLIPPAGE_BPS
                    /\ t.total_buybacks_usdc
                         <= ExactBudget(t.total_usdc_converted, t.buyback_allocation_bps)
                    /\ t.total_liquidity_usdc
                         <= ExactBudget(t.total_usdc_converted, t.liquidity_allocation_bps)

\* The record as initialize by "bob" with (0, 0, 10000) and the cap 6000, the
\* cooldown 2 and the slippage bound 1000 left it.
C4_Witness ==
    account = [ authority |-> "bob", buyback_allocation_bps |-> 0,
                liquidity_allocation_bps |-> 0, reserve_allocation_bps |-> 10000,
                max_usdc_per_cycle |-> 6000, cooldown_seconds |-> 2,
                slippage_bps |-> 1000, total_sol_collected |-> 0,
                total_usdc_converted |-> 0, total_buybacks_usdc |-> 0,
                total_liquidity_usdc |-> 0, total_tokens_burned |-> 0,
                last_operation_timestamp |-> 0, paused |-> FALSE ]

\* C5: while paused, record_fee by any caller and record_usdc_conversion,
\* execute_buyback and add_liquidity by the authority fail with Paused for
\* every amount at every time; the handler has written no field, emitted no
\* event and invoked no transfer.
C5_PausedBlocks ==
    (Exists(account) /\ account.paused) =>
        /\ \A caller \in Callers, amount \in FeeAmounts :
               CallRecordFee(caller, amount) = Fail("Paused", account)
        /\ \A usdc_amount \in ConversionAmounts :
               CallRecordConversion(account.authority, usdc_amount) = Fail("Paused", account)
        /\ \A usdc_amount \in SpendAmounts, transfer_ok \in BOOLEAN :
               /\ CallExecuteBuyback(account.authority, usdc_amount, transfer_ok)
                    = Fail("Paused", account)
               /\ CallAddLiquidity(account.authority, usdc_amount, transfer_ok)
                    = Fail("Paused", account)

\* A paused ledger in which a buyback of 6000 would go through but for the pause.
C5_Witness ==
    /\ Exists(account)
    /\ account.paused
    /\ execute_buyback([account EXCEPT !.paused = FALSE], clock, 6000, TRUE,
                       overflow_checks).result = "Ok"
    /\ CallExecuteBuyback(account.authority, 6000, TRUE).result = "Paused"

\* C6: emergency_pause and resume by the authority succeed whatever paused is,
\* leave paused true resp. false and every other field alone, and emit their
\* event; update_config by the authority succeeds in both states exactly when
\* the slippage supplied, if any, is at most 1000.
C6_PauseResumeAlways ==
    Exists(account) =>
        /\ CallEmergencyPause(account.authority)
             = Outcome("Ok", [account EXCEPT !.paused = TRUE], "EmergencyPaused", "none")
        /\ CallResume(account.authority)
             = Outcome("Ok", [account EXCEPT !.paused = FALSE], "OperationsResumed", "none")
        /\ \A p \in ConfigPatches :
               LET out == CallUpdateConfig(account.authority, p)
               IN  (out.result = "Ok") <=> (p[3] = None \/ Unwrap(p[3]) <= MAX_SLIPPAGE_BPS)

\* A paused ledger: emergency_pause has acted, and pausing again succeeds.
C6_Witness ==
    /\ Exists(account)
    /\ account.paused
    /\ CallEmergencyPause(account.authority).result = "Ok"
    /\ CallUpdateConfig(account.authority, <<Some(6000), None, None>>).result = "Ok"

\* C7: after a successful spending operation at t0 = last_operation_timestamp,
\* execute_buyback and add_liquidity by the authority while not paused fail
\* with CooldownNotMet exactly when clock - t0 < cooldown_seconds, and then
\* nothing is written, emitted or transferred.
C7_Cooldown ==
    (Exists(account) /\ ~account.paused /\ last_spend # "none") =>
        \A usdc_amount \in SpendAmounts, transfer_ok \in BOOLEAN :
            LET b == CallExecuteBuyback(account.authority, usdc_amount, transfer_ok)
                l == CallAddLiquidity(account.authority, usdc_amount, transfer_ok)
                early == clock - account.last_operation_timestamp < account.cooldown_seconds
            IN  /\ (b.result = "CooldownNotMet") <=> early
                /\ (l.result = "CooldownNotMet") <=> early
                /\ early => (b = Fail("CooldownNotMet", account)
                             /\ l = Fail("CooldownNotMet", account))

\* The last spending operation was a buyback at time 0, the cooldown is 2 and
\* the clock is at 1: a liquidity addition is refused.
C7_Witness ==
    /\ Exists(account)
    /\ ~account.paused
    /\ last_spend = "buyback"
    /\ account.total_buybacks_usdc > 0
    /\ account.cooldown_seconds = 2
    /\ clock - account.last_operation_timestamp = 1
    /\ CallAddLiquidity(account.authority, 0, TRUE).result = "CooldownNotMet"

\* C8: update_config with slippage_bps > 1000 fails with SlippageTooHigh before
\* any field is written: max_usdc_per_cycle, cooldown_seconds and slippage_bps
\* have their previous values when the handler returns.
C8_SlippageFailsFast ==
    Exists(account) =>
        \A p \in ConfigPatches :
            (p[3] # None /\ Unwrap(p[3]) > MAX_SLIPPAGE_BPS) =>
                CallUpdateConfig(account.authority, p) = Fail("SlippageTooHigh", account)

\* C9: when token::transfer fails in an execute_buyback or add_liquidity that
\* would have reached it, the operation fails, the handler has written no
\* field (counter and last_operation_timestamp are as before) and no event is
\* emitted.
C9_TransferFailureAborts ==
    Exists(account) =>
        \A usdc_amount \in SpendAmounts :
            /\ CallExecuteBuyback(account.authority, usdc_amount, TRUE).cpi = "ok" =>
                   CallExecuteBuyback(account.authority, usdc_amount, FALSE)
                       = Outcome("TransferFailed", account, "none", "failed")
            /\ CallAddLiquidity(account.authority, usdc_amount, TRUE).cpi = "ok" =>
                   CallAddLiquidity(account.authority, usdc_amount, FALSE)
                       = Outcome("TransferFailed", account, "none", "failed")

\* A state in which a buyback and a liquidity addition of 6000 both pass their
\* guards, after earlier spending, and fail with the transfer.
C9_Witness ==
    /\ Exists(account)
    /\ account.total_buybacks_usdc > 0
    /\ CallExecuteBuyback(account.authority, 6000, TRUE).result = "Ok"
    /\ CallAddLiquidity(account.authority, 6000, TRUE).result = "Ok"
    /\ CallExecuteBuyback(account.authority, 6000, FALSE).result = "TransferFailed"
    /\ CallAddLiquidity(account.authority, 6000, FALSE).result = "TransferFailed"

\* The state part of C10: ranges and the outcome of an overflowing addition
C10_NoWrap ==
    Exists(account) =>
        /\ \A k \in Counters : account[k] \in 0..MaxU64
        /\ ~account.paused =>
             /\ \A caller \in Callers, amount \in FeeAmounts :
                    account.total_sol_collected + amount > MaxU64 =>
                        CallRecordFee(caller, amount) = Fail("Overflow", account)
             /\ \A usdc_amount \in ConversionAmounts :
                    account.total_usdc_converted + usdc_amount > MaxU64 =>
                        CallRecordConversion(account.authority, usdc_amount)
                            = Fail("Overflow", account)
        /\ \A usdc_amount \in SpendAmounts, transfer_ok \in BOOLEAN :
               LET b == CallExecuteBuyback(account.authority, usdc_amount, transfer_ok)
                   l == CallAddLiquidity(account.authority, usdc_amount, transfer_ok)
               IN  /\ account.total_buybacks_usdc + usdc_amount > MaxU64 =>
                          (b.result # "Ok" /\ b.treasury = account)
                   /\ account.total_liquidity_usdc + usdc_amount > MaxU64 =>
                          (l.result # "Ok" /\ l.treasury = account)
                   /\ b.result = "Overflow" =>
                          (b.treasury = account /\ b.event = "none"
                           /\ account.total_buybacks_usdc + usdc_amount > MaxU64)
                   /\ l.result = "Overflow" =>
                          (l.treasury = account /\ l.event = "none"
                           /\ account.total_liquidity_usdc + usdc_amount > MaxU64)

\* The step part of C10: no counter decreases and the record is never removed
C10_Monotone ==
    Exists(account) =>
        /\ Exists(account')
        /\ \A k \in Counters : account'[k] >= account[k]

\* C10: the five counters stay within u64 and never decrease in any step; a
\* record_fee or record_usdc_conversion whose sum exceeds the largest u64 fails
\* with Overflow, an execute_buyback or add_liquidity whose sum exceeds it
\* fails, and a failing operation writes nothing.
C10_CountersMonotone == []C10_NoWrap /\ [][C10_Monotone]_vars

\* total_sol_collected is 30000 and a further fee of 30000 is refused with
\* Overflow; total_usdc_converted is 30000 and a further conversion overflows.
C10_Witness ==
    /\ Exists(account)
    /\ ~account.paused
    /\ account.total_sol_collected = 30000
    /\ account.total_usdc_converted = 30000
    /\ CallRecordFee(account.authority, 30000).result = "Overflow"
    /\ CallRecordConversion(account.authority, 10000).result = "Overflow"

\* The state part of C11: the timestamp is not ahead of the clock, a successful
\* spending operation sets it to the clock and no other handler writes it
C11_TimestampWritten ==
    Exists(account) =>
        /\ account.last_operation_timestamp <= clock
        /\ \A caller \in Callers, usdc_amount \in SpendAmounts, transfer_ok \in BOOLEAN :
               LET b == CallExecuteBuyback(caller, usdc_amount, transfer_ok)
                   l == CallAddLiquidity(caller, usdc_amount, transfer_ok)
               IN  /\ b.treasury.last_operation_timestamp
                        = IF b.result = "Ok" THEN clock
                          ELSE account.last_operation_timestamp
                   /\ l.treasury.last_operation_timestamp
                        = IF l.result = "Ok" THEN clock
                          ELSE account.last_operation_timestamp
        /\ \A caller \in Callers :
               /\ \A amount \in FeeAmounts :
                      CallRecordFee(caller, amount).treasury.last_operation_timestamp
                          = account.last_operation_timestamp
               /\ \A usdc_amount \in ConversionAmounts :
                      CallRecordConversion(caller, usdc_amount).treasury.last_operation_timestamp
                          = account.last_operation_timestamp
               /\ CallEmergencyPause(caller).treasury.last_operation_timestamp
                      = account.last_operation_timestamp
               /\ CallResume(caller).treasury.last_operation_timestamp
                      = account.last_operation_timestamp
               /\ \A p \in ConfigPatches :
                      CallUpdateConfig(caller, p).treasury.last_operation_timestamp
                          = account.last_operation_timestamp

\* The step part of C11: the timestamp does not decrease, and a step that
\* changes it is a successful execute_buyback or add_liquidity
C11_TimestampStep ==
    Exists(account) =>
        /\ account'.last_operation_timestamp >= account.last_operation_timestamp
        /\ account'.last_operation_timestamp # account.last_operation_timestamp =>
               /\ account'.last_operation_timestamp = clock
               /\ \E usdc_amount \in SpendAmounts :
                      LET b == CallExecuteBuyback(account.authority, usdc_amount, TRUE)
                          l == CallAddLiquidity(account.authority, usdc_amount, TRUE)
                      IN  \/ (b.result = "Ok" /\ account' = b.treasury)
                          \/ (l.result = "Ok" /\ account' = l.treasury)

\* C11: last_operation_timestamp never decreases while the clock does not, for
\* every stored cooldown_seconds; it changes only in a successful
\* execute_buyback or add_liquidity, where it becomes the current time.
C11_TimestampMonotone == []C11_TimestampWritten /\ [][C11_TimestampStep]_vars

\* A liquidity addition at time 2 under the negative cooldown -1, after a
\* buyback: the timestamp has moved from 0 to 2.
C11_Witness ==
    /\ Exists(account)
    /\ account.cooldown_seconds = -1
    /\ account.last_operation_timestamp = 2
    /\ last_spend = "liquidity"
    /\ account.total_buybacks_usdc > 0

\* The error of a violated `constraint = authority.key() == treasury.authority`:
\* the constraint names no error of its own, so it is the framework's
\* raw-constraint error
Unauthorized == "ConstraintRaw"

\* The fields a caller other than the authority must not be able to change
Privileged(t) ==
    <<t.paused, t.max_usdc_per_cycle, t.cooldown_seconds, t.slippage_bps,
      t.buyback_allocation_bps, t.liquidity_allocation_bps, t.reserve_allocation_bps,
      t.authority, t.total_buybacks_usdc, t.total_liquidity_usdc,
      t.last_operation_timestamp>>

\* What an invocation leaves in the account
Committed(out) == IF out.result = "Ok" THEN out.treasury ELSE account

\* C12: execute_buyback, add_liquidity, emergency_pause, resume and
\* update_config invoked by a caller other than the stored authority fail
\* with Unauthorized whatever paused, the cooldown and the arguments are, and
\* no field is written; no invocation of any instruction by such a caller
\* changes paused, the configuration, total_buybacks, total_liquidity or
\* last_operation_timestamp.
C12_OnlyAuthority ==
    Exists(account) =>
        \A caller \in Callers \ {account.authority} :
            /\ \A usdc_amount \in SpendAmounts, transfer_ok \in BOOLEAN :
                   /\ CallExecuteBuyback(caller, usdc_amount, transfer_ok)
                        = Fail(Unauthorized, account)
                   /\ CallAddLiquidity(caller, usdc_amount, transfer_ok)
                        = Fail(Unauthorized, account)
            /\ CallEmergencyPause(caller) = Fail(Unauthorized, account)
            /\ CallResume(caller) = Fail(Unauthorized, account)
            /\ \A p \in ConfigPatches :
                   CallUpdateConfig(caller, p) = Fail(Unauthorized, account)
            /\ \A amount \in FeeAmounts :
                   Privileged(Committed(CallRecordFee(caller, amount))) = Privileged(account)
            /\ \A usdc_amount \in ConversionAmounts :
                   Privileged(Committed(CallRecordConversion(caller, usdc_amount)))
                       = Privileged(account)
            /\ \A a \in AllocationTriples, c \in InitConfigs :
                   Privileged(Committed(CallInitialize(caller, a, c))) = Privileged(account)

\* A paused ledger whose cooldown has not elapsed: a buyback by the other
\* caller is refused as unauthorized, not as paused or too early.
C12_Witness ==
    /\ Exists(account)
    /\ account.paused
    /\ last_spend # "none"
    /\ clock - account.last_operation_timestamp < account.cooldown_seconds
    /\ \E caller \in Callers \ {account.authority} :
           /\ CallExecuteBuyback(caller, 6000, TRUE).result = Unauthorized
           /\ CallResume(caller).result = Unauthorized

\* record_fee by `caller` succeeds and adds the amount to total_sol_collected
FeeRecordedBy(caller, amount) ==
    CallRecordFee(caller, amount)
        = Outcome("Ok",
                  [account EXCEPT !.total_sol_collected = account.total_sol_collected + amount],
                  "FeeRecorded", "none")

\* record_usdc_conversion by `caller` succeeds and adds the amount to
\* total_usdc_converted
ConversionRecordedBy(caller, usdc_amount) ==
    CallRecordConversion(caller, usdc_amount)
        = Outcome("Ok",
                  [account EXCEPT
                       !.total_usdc_converted = account.total_usdc_converted + usdc_amount],
                  "UsdcConverted", "none")

\* C13 as claimed: while not paused, record_fee and record_usdc_conversion
\* invoked by any caller, the authority or not, with an amount that does not
\* overflow the counter succeed and add the amount to their counter.
C13_AnyCallerRecords ==
    (Exists(account) /\ ~account.paused) =>
        \A caller \in Callers :
            /\ \A amount \in FeeAmounts :
                   account.total_sol_collected + amount <= MaxU64 =>
                       FeeRecordedBy(caller, amount)
            /\ \A usdc_amount \in ConversionAmounts :
                   account.total_usdc_converted + usdc_amount <= MaxU64 =>
                       ConversionRecordedBy(caller, usdc_amount)

\* C13 as amended: while not paused and without overflow, record_fee succeeds
\* for any caller and adds the amount to total_sol_collected;
\* record_usdc_conversion succeeds and adds the amount to total_usdc_converted
\* when the caller is the authority, and fails as unauthorized, writing
\* nothing, for any other caller (also while paused).
C13_ConversionNeedsAuthority ==
    Exists(account) =>
        /\ ~account.paused =>
               /\ \A caller \in Callers, amount \in FeeAmounts :
                      account.total_sol_collected + amount <= MaxU64 =>
                          FeeRecordedBy(caller, amount)
               /\ \A usdc_amount \in ConversionAmounts :
                      account.total_usdc_converted + usdc_amount <= MaxU64 =>
                          ConversionRecordedBy(account.authority, usdc_amount)
        /\ \A caller \in Callers \ {account.authority}, usdc_amount \in ConversionAmounts :
               CallRecordConversion(caller, usdc_amount) = Fail(Unauthorized, account)

\* Fees and conversions have been recorded; the other caller can record a
\* further fee but not a further conversion, which the authority can.
C13_Witness ==
    /\ Exists(account)
    /\ ~account.paused
    /\ account.total_sol_collected > 0
    /\ account.total_usdc_converted = 10000
    /\ \E caller \in Callers \ {account.authority} :
           /\ CallRecordFee(caller, 0).result = "Ok"
           /\ CallRecordConversion(caller, 10000).result = Unauthorized
    /\ CallRecordConversion(account.authority, 10000).result = "Ok"

\* The value a field has after a patch: the value supplied, else the old one
Patched(option, old) == IF option # None THEN Unwrap(option) ELSE old

\* C14: a successful update_config sets each of max_usdc_per_cycle,
\* cooldown_seconds and slippage_bps for which a value was supplied to that
\* value and leaves every other field of the record as it was; with all three
\* absent the record is unchanged; ConfigUpdated is the one event emitted.
C14_UpdateConfigFrame ==
    Exists(account) =>
        /\ \A p \in ConfigPatches :
               LET out == CallUpdateConfig(account.authority, p)
               IN  out.result = "Ok" =>
                       /\ out.treasury
                            = [account EXCEPT
                                   !.max_usdc_per_cycle = Patched(p[1], @),
                                   !.cooldown_seconds = Patched(p[2], @),
                                   !.slippage_bps = Patched(p[3], @)]
                       /\ out.event = "ConfigUpdated"
                       /\ out.cpi = "none"
        /\ CallUpdateConfig(account.authority, <<None, None, None>>)
               = Outcome("Ok", account, "ConfigUpdated", "none")

\* update_config has lowered the cooldown to 0 and the slippage bound to 500
\* on a ledger that has spent, and the cap is still the one of initialize.
C14_Witness ==
    /\ Exists(account)
    /\ account.cooldown_seconds = 0
    /\ account.slippage_bps = 500
    /\ account.max_usdc_per_cycle = MaxU64
    /\ account.total_buybacks_usdc > 0
    /\ CallUpdateConfig(account.authority, <<Some(6000), None, None>>).result = "Ok"

\* C15: a successful execute_buyback or add_liquidity has usdc_amount <=
\* max_usdc_per_cycle as stored when it is invoked; invoked by the authority
\* while not paused and with the cooldown elapsed, either fails with
\* ExceedsMaxPerCycle exactly when usdc_amount > max_usdc_per_cycle, and then
\* writes nothing and invokes no transfer.
C15_PerCycleCap ==
    Exists(account) =>
        \A usdc_amount \in SpendAmounts, transfer_ok \in BOOLEAN :
            LET b == CallExecuteBuyback(account.authority, usdc_amount, transfer_ok)
                l == CallAddLiquidity(account.authority, usdc_amount, transfer_ok)
                over == usdc_amount > account.max_usdc_per_cycle
                elapsed == clock - account.last_operation_timestamp
                               >= account.cooldown_seconds
            IN  /\ b.result = "Ok" => ~over
                /\ l.result = "Ok" => ~over
                /\ (~account.paused /\ elapsed) =>
                       /\ (b.result = "ExceedsMaxPerCycle") <=> over
                       /\ (l.result = "ExceedsMaxPerCycle") <=> over
                       /\ over => (b = Fail("ExceedsMaxPerCycle", account)
                                   /\ l = Fail("ExceedsMaxPerCycle", account))

\* update_config has set the cooldown to 0 and the cap to 6000 on a ledger with
\* the allocations (6000, 3000, 1000) that has bought back 6000: a further
\* buyback of 6000 passes the cap, one of 30000 does not.
C15_Witness ==
    /\ Exists(account)
    /\ ~account.paused
    /\ account.buyback_allocation_bps = 6000
    /\ account.max_usdc_per_cycle = 6000
    /\ account.cooldown_seconds = 0
    /\ account.total_buybacks_usdc = 6000
    /\ CallExecuteBuyback(account.authority, 30000, TRUE).result = "ExceedsMaxPerCycle"
    /\ CallExecuteBuyback(account.authority, 6000, TRUE).result = "Ok"

\* C16: once the Treasury record exists, initialize with any arguments by any
\* caller fails with AlreadyExists before the handler runs and the record
\* keeps its authority, configuration, counters, last_operation_timestamp and
\* paused: no counter is reset to zero.
C16_CreatedOnce ==
    Exists(account) =>
        \A caller \in Callers, a \in AllocationTriples, c \in InitConfigs :
            LET out == CallInitialize(caller, a, c)
            IN  /\ out = Fail("AlreadyExists", account)
                /\ Committed(out) = account

\* A ledger with recorded fees, conversions and spending, paused, on which
\* initialize by its authority with valid arguments is refused.
C16_Witness ==
    /\ Exists(account)
    /\ account.paused
    /\ account.total_sol_collected > 0
    /\ account.total_usdc_converted > 0
    /\ account.total_buybacks_usdc > 0
    /\ account.last_operation_timestamp > 0
    /\ CallInitialize(account.authority, <<6000, 3000, 1000>>, <<6000, 2, 1000>>).result
           = "AlreadyExists"

\* C17: execute_buyback (add_liquidity) invoked by the authority while not
\* paused, with the cooldown elapsed and usdc_amount <= max_usdc_per_cycle,
\* fails with ExceedsAllocation whenever the integer sum total_buybacks_usdc +
\* usdc_amount (total_liquidity_usdc + usdc_amount), sums above the u64 range
\* included, exceeds floor(total_usdc_converted * category_bps / 10000); the
\* transfer is then not invoked and the outcome is not Overflow.
C17_ExceedsAllocationExact ==
    Exists(account) =>
        \A usdc_amount \in SpendAmounts, transfer_ok \in BOOLEAN :
            LET b == CallExecuteBuyback(account.authority, usdc_amount, transfer_ok)
                l == CallAddLiquidity(account.authority, usdc_amount, transfer_ok)
                passes == /\ ~account.paused
                          /\ clock - account.last_operation_timestamp
                                 >= account.cooldown_seconds
                          /\ usdc_amount <= account.max_usdc_per_cycle
            IN  /\ ( /\ passes
                     /\ account.total_buybacks_usdc + usdc_amount
                          > ExactBudget(account.total_usdc_converted,
                                        account.buyback_allocation_bps) )
                       => b = Fail("ExceedsAllocation", account)
                /\ ( /\ passes
                     /\ account.total_liquidity_usdc + usdc_amount
                          > ExactBudget(account.total_usdc_converted,
                                        account.liquidity_allocation_bps) )
                       => l = Fail("ExceedsAllocation", account)

\* The fields that only initialize writes
SetByInitialize(t) ==
    <<t.authority, t.buyback_allocation_bps, t.liquidity_allocation_bps,
      t.reserve_allocation_bps, t.total_tokens_burned>>

\* Every successful invocation of record_fee, record_usdc_conversion,
\* execute_buyback, add_liquidity, emergency_pause and resume at the current
\* state leaves every field outside its own as it was
C18_Frame ==
    Exists(account) =>
        /\ account.total_tokens_burned = 0
        /\ \A caller \in Callers :
            /\ \A amount \in FeeAmounts :
                 LET out == CallRecordFee(caller, amount)
                 IN  out.result = "Ok" =>
                       out.treasury = [account EXCEPT !.total_sol_collected =
                                                          account.total_sol_collected + amount]
            /\ \A usdc_amount \in ConversionAmounts :
                 LET out == CallRecordConversion(caller, usdc_amount)
                 IN  out.result = "Ok" =>
                       out.treasury = [account EXCEPT !.total_usdc_converted =
                                                          account.total_usdc_converted + usdc_amount]
            /\ \A usdc_amount \in SpendAmounts, transfer_ok \in BOOLEAN :
                 LET b == CallExecuteBuyback(caller, usdc_amount, transfer_ok)
                     l == CallAddLiquidity(caller, usdc_amount, transfer_ok)
                 IN  /\ b.result = "Ok" =>
                           b.treasury = [account EXCEPT !.total_buybacks_usdc =
                                                            account.total_buybacks_usdc + usdc_amount,
                                                        !.last_operation_timestamp = clock]
                     /\ l.result = "Ok" =>
                           l.treasury = [account EXCEPT !.total_liquidity_usdc =
                                                            account.total_liquidity_usdc + usdc_amount,
                                                        !.last_operation_timestamp = clock]
            /\ LET p == CallEmergencyPause(caller)
                   r == CallResume(caller)
               IN  /\ p.result = "Ok" => p.treasury = [account EXCEPT !.paused = TRUE]
                   /\ r.result = "Ok" => r.treasury = [account EXCEPT !.paused = FALSE]

\* No step changes authority, the three allocations or total_tokens_burned of
\* an existing record
C18_InitializeOnly ==
    Exists(account) => /\ Exists(account')
                       /\ SetByInitialize(account') = SetByInitialize(account)

\* C18: each successful operation changes only its own fields: record_fee only
\* total_sol_collected, record_usdc_conversion only total_usdc_converted,
\* execute_buyback only total_buybacks_usdc and last_operation_timestamp,
\* add_liquidity only total_liquidity_usdc and last_operation_timestamp,
\* emergency_pause and resume only paused; so authority, the three allocations
\* and total_tokens_burned keep the values initialize gave them in every
\* reachable state, total_tokens_burned staying 0.
C18_OnlyOwnFields == []C18_Frame /\ [][C18_InitializeOnly]_vars

\* Every operation has acted on the ledger (fees, conversions, both spending
\* categories at time 2, a pause) and resume by the authority succeeds.
C18_Witness ==
    /\ Exists(account)
    /\ account.paused
    /\ account.total_sol_collected = 30000
    /\ account.total_usdc_converted = 20000
    /\ account.total_buybacks_usdc = 6000
    /\ account.total_liquidity_usdc = 6000
    /\ account.last_operation_timestamp = 2
    /\ account.total_tokens_burned = 0
    /\ CallResume(account.authority).result = "Ok"

\* C19: in every reachable state total_buybacks_usdc + total_liquidity_usdc
\* <= total_usdc_converted, for every allocation initialize accepts and every
\* interleaving of record_usdc_conversion, execute_buyback and add_liquidity.
C19_SpendingWithinConverted ==
    Exists(account) =>
        account.total_buybacks_usdc + account.total_liquidity_usdc
            <= account.total_usdc_converted

\* C20: initialize and update_config store the cooldown_seconds they are
\* given, whatever its sign, and while the stored cooldown_seconds <= 0 no
\* execute_buyback or add_liquidity fails with CooldownNotMet, the clock never
\* running behind last_operation_timestamp: spends at the same timestamp all
\* pass the cooldown guard and only the per-cycle cap and the allocation
\* budget limit them.
C20_NonPositiveCooldown ==
    /\ \A caller \in Callers, a \in AllocationTriples, c \in InitConfigs :
         LET out == CallInitialize(caller, a, c)
         IN  out.result = "Ok" => out.treasury.cooldown_seconds = c[2]
    /\ Exists(account) =>
         /\ clock >= account.last_operation_timestamp
         /\ \A p \in ConfigPatches :
              LET out == CallUpdateConfig(account.authority, p)
              IN  (out.result = "Ok" /\ p[2] # None)
                      => out.treasury.cooldown_seconds = Unwrap(p[2])
         /\ account.cooldown_seconds <= 0 =>
              \A caller \in Callers, usdc_amount \in SpendAmounts, transfer_ok \in BOOLEAN :
                  LET b == CallExecuteBuyback(caller, usdc_amount, transfer_ok)
                      l == CallAddLiquidity(caller, usdc_amount, transfer_ok)
                  IN  /\ b.result # "CooldownNotMet"
                      /\ l.result # "CooldownNotMet"
                      /\ ( /\ caller = account.authority
                           /\ ~account.paused
                           /\ transfer_ok
                           /\ usdc_amount <= account.max_usdc_per_cycle
                           /\ account.total_buybacks_usdc + usdc_amount
                                <= max_allocation(account.total_usdc_converted,
                                                  account.buyback_allocation_bps) )
                             => b.result = "Ok"
                      /\ ( /\ caller = account.authority
                           /\ ~account.paused
                           /\ transfer_ok
                           /\ usdc_amount <= account.max_usdc_per_cycle
                           /\ account.total_liquidity_usdc + usdc_amount
                                <= max_allocation(account.total_usdc_converted,
                                                  account.liquidity_allocation_bps) )
                             => l.result = "Ok"

\* The cooldown stored by initialize is -1; two buybacks of 6000 have been
\* made at timestamp 0, the clock is still 0 and add_liquidity of 6000
\* succeeds at the same timestamp.
C20_Witness ==
    /\ Exists(account)
    /\ account.cooldown_seconds = -1
    /\ clock = 0
    /\ account.buyback_allocation_bps = 6000
    /\ account.total_buybacks_usdc = 12000
    /\ account.total_liquidity_usdc = 0
    /\ CallAddLiquidity(account.authority, 6000, TRUE).result = "Ok"

====
